---- MODULE Spec2Model ----
(***************************************************************************)
(* A model of the toy MIMO system generator (src/src/mimo_system.py):      *)
(* the random transfer-function factory, the ToyMIMO objects with their    *)
(* attributes, and the calls initialization / build_system /               *)
(* excite_system / get_format.                                             *)
(*                                                                         *)
(* Real numbers are fixed-point integers.  A coefficient drawn by          *)
(* np.random.uniform is an integer number of tenths; the k-th coefficient  *)
(* (k = 0 for the leading one) of a polynomial expanded by np.poly from    *)
(* roots in tenths is in units of 10^-k.                                   *)
(*                                                                         *)
(* A Python attribute that may be missing is a sequence of length 0        *)
(* (missing: reading it raises AttributeError) or 1 (set, value at [1]).   *)
(***************************************************************************)
EXTENDS Integers, Sequences, FiniteSets, TLC

VARIABLES rng,    \* state of the module-level generator np.random
          clock,  \* datetime.now(), in seconds
          heap,   \* the ToyMIMO objects of the process, a sequence of records
          inits,  \* number of initialization() calls made so far
          ret     \* what the last call returned or raised

vars == <<rng, clock, heap, inits, ret>>

-----------------------------------------------------------------------------
(* Bounds of the model.                                                    *)

MaxSeed == 2        \* generator states a process may start from: 0..MaxSeed
MaxDim == 2         \* nr_inputs, nr_outputs range over -1..MaxDim
MaxInits == 2       \* initialization() is called at most this many times
MaxClock == 1       \* the clock ticks at most this many times
MaxOrderArg == 3    \* get_orders is called with order_max in 0..MaxOrderArg
MaxDenOrder == 3    \* get_den is called directly with order in 1..MaxDenOrder
MaxLen == 3         \* get_format is called with arrays of length 0..MaxLen

-----------------------------------------------------------------------------
(* np.random: a deterministic generator with one global state.  Every draw *)
(* returns a value computed from the state and moves the state on.         *)

RngModulus == 101

RngStates == 0..(RngModulus - 1)

RngNext(g) == (7 * g + 11) % RngModulus

\* np.random.randint(low, high): an integer of [low, high); ValueError when
\* the interval is empty.
RandInt(g, low, high) ==
    IF high <= low
    THEN [ok |-> FALSE, v |-> 0, g |-> g]
    ELSE [ok |-> TRUE, v |-> low + (g % (high - low)), g |-> RngNext(g)]

\* np.random.uniform(low, high, size): size values of [low, high).
RECURSIVE Uniform(_, _, _, _)
Uniform(g, low, high, size) ==
    IF size <= 0
    THEN [v |-> <<>>, g |-> g]
    ELSE LET rest == Uniform(RngNext(g), low, high, size - 1)
         IN  [v |-> <<low + (g % (high - low))>> \o rest.v, g |-> rest.g]

-----------------------------------------------------------------------------
(* The transfer-function factory.                                          *)

CoefLow == -10      \* -1 in tenths
CoefHigh == 10      \*  1 in tenths
PoleLow == 1        \* 0.1 in tenths
PoleHigh == 50      \* 5.0 in tenths
DefaultOrderMax == 3

get_random_order(g, order_min, order_max) == RandInt(g, order_min, order_max + 1)

get_orders_den_from_one(g, order_max) ==
    LET a == get_random_order(g, 1, order_max)
        b == get_random_order(a.g, 1, order_max + 1)
    IN  IF ~a.ok
        THEN [ok |-> FALSE, order_num |-> 0, order_den |-> 0, g |-> g]
        ELSE [ok |-> TRUE, order_num |-> a.v, order_den |-> b.v, g |-> b.g]

get_orders(g, order_max) ==
    LET a == get_random_order(g, 1, order_max)
        b == get_random_order(a.g, a.v, order_max + 1)
    IN  IF ~a.ok
        THEN [ok |-> FALSE, order_num |-> 0, order_den |-> 0, g |-> g]
        ELSE [ok |-> TRUE, order_num |-> a.v, order_den |-> b.v, g |-> b.g]

get_num(g, order) == Uniform(g, CoefLow, CoefHigh, order + 1)

\* p(x) * (x - r), coefficients in descending powers.
MulLinear(p, r) ==
    [k \in 1..(Len(p) + 1) |->
        (IF k <= Len(p) THEN p[k] ELSE 0) - r * (IF k >= 2 THEN p[k - 1] ELSE 0)]

\* np.poly(roots): the monic polynomial with the given roots.
RECURSIVE Poly(_)
Poly(roots) ==
    IF roots = <<>>
    THEN <<1>>
    ELSE MulLinear(Poly(SubSeq(roots, 1, Len(roots) - 1)), roots[Len(roots)])

Negate(s) == [k \in 1..Len(s) |-> 0 - s[k]]

get_den_not_negated(g, order) ==
    LET u == Uniform(g, PoleLow, PoleHigh, order)
    IN  [poles |-> u.v, den |-> Poly(u.v), g |-> u.g]

get_den(g, order) ==
    LET u == Uniform(g, PoleLow, PoleHigh, order)
        poles == Negate(u.v)
    IN  [poles |-> poles, den |-> Poly(poles), g |-> u.g]

get_transfer_function_parameters(g) ==
    LET o == get_orders(g, DefaultOrderMax)
        n == get_num(o.g, o.order_num)
        d == get_den(n.g, o.order_den)
    IN  [cell |-> [order_num |-> o.order_num, order_den |-> o.order_den,
                   num |-> n.v, den |-> d.den],
         poles |-> d.poles,
         g |-> d.g]

-----------------------------------------------------------------------------
(* What a call leaves in ret.                                              *)

NoCell == [order_num |-> 0, order_den |-> 0, num |-> <<>>, den |-> <<>>]

NoRet == [op |-> "none", obj |-> 0, status |-> "none", arg |-> <<>>,
          cell |-> NoCell, poles |-> <<>>, y |-> <<>>, calls |-> <<>>, str |-> ""]

\* ToyMIMO(nr_inputs, nr_outputs): __init__ stores the two numbers as given
\* and sets neither params, sys_name nor H.
ToyMIMO(nr_inputs, nr_outputs) ==
    [nr_inputs |-> nr_inputs, nr_outputs |-> nr_outputs, params |-> <<>>,
     sys_name |-> <<>>, H |-> <<>>]

HasAttr(a) == Len(a) = 1
Attr(a) == a[1]

-----------------------------------------------------------------------------
(* The factory called on its own.                                          *)

InitFactory ==
    /\ rng \in RngStates
    /\ clock = 0
    /\ heap = <<ToyMIMO(1, 1)>>
    /\ inits = 0
    /\ ret = NoRet

CallGetOrders ==
    \E order_max \in 0..MaxOrderArg :
        LET r == get_orders(rng, order_max)
        IN  /\ rng' = r.g
            /\ ret' = [NoRet EXCEPT !.op = "get_orders",
                                    !.status = IF r.ok THEN "ok" ELSE "error",
                                    !.arg = <<order_max>>,
                                    !.cell = [NoCell EXCEPT !.order_num = r.order_num,
                                                            !.order_den = r.order_den]]
            /\ UNCHANGED <<clock, heap, inits>>

CallGetDen ==
    \E order \in 1..MaxDenOrder :
        LET r == get_den(rng, order)
        IN  /\ rng' = r.g
            /\ ret' = [NoRet EXCEPT !.op = "get_den", !.status = "ok",
                                    !.arg = <<order>>,
                                    !.cell = [NoCell EXCEPT !.order_den = order,
                                                            !.den = r.den],
                                    !.poles = r.poles]
            /\ UNCHANGED <<clock, heap, inits>>

CallGetTransferFunctionParameters ==
    LET r == get_transfer_function_parameters(rng)
    IN  /\ rng' = r.g
        /\ ret' = [NoRet EXCEPT !.op = "get_transfer_function_parameters",
                                !.status = "ok", !.cell = r.cell, !.poles = r.poles]
        /\ UNCHANGED <<clock, heap, inits>>

NextFactory ==
    \/ CallGetOrders
    \/ CallGetDen
    \/ CallGetTransferFunctionParameters

SpecFactory == InitFactory /\ [][NextFactory]_vars

-----------------------------------------------------------------------------
(* C1: for every order_max >= 1 and every draw, get_orders returns         *)
(* 1 <= order_num <= order_max and order_num <= order_den <= order_max + 1; *)
(* every generated cell has order_num <= order_den; order_max = 1 gives    *)
(* order_num = 1 and order_den in {1, 2}.                                  *)
C1_OrdersInRange ==
    /\ (ret.op = "get_orders" /\ ret.arg[1] >= 1) =>
          /\ ret.status = "ok"
          /\ 1 <= ret.cell.order_num
          /\ ret.cell.order_num <= ret.arg[1]
          /\ ret.cell.order_num <= ret.cell.order_den
          /\ ret.cell.order_den <= ret.arg[1] + 1
          /\ (ret.arg[1] = 1 =>
                 ret.cell.order_num = 1 /\ ret.cell.order_den \in {1, 2})
    /\ ret.op = "get_transfer_function_parameters" =>
          /\ 1 <= ret.cell.order_num
          /\ ret.cell.order_num <= ret.cell.order_den
          /\ ret.cell.order_den <= DefaultOrderMax + 1

C1_Witness ==
    /\ ret.op = "get_orders"
    /\ ret.arg = <<MaxOrderArg>>
    /\ ret.cell.order_num = MaxOrderArg
    /\ ret.cell.order_den = MaxOrderArg + 1

-----------------------------------------------------------------------------
(* Polynomials as the claims read them.                                    *)

\* p(x) by Horner's rule.
RECURSIVE PolyEval(_, _)
PolyEval(p, x) ==
    IF p = <<>>
    THEN 0
    ELSE PolyEval(SubSeq(p, 1, Len(p) - 1), x) * x + p[Len(p)]

Range(s) == {s[k] : k \in 1..Len(s)}

\* C2: the denominator of every generated transfer function has
\* order_den + 1 coefficients, leading coefficient 1, and its roots are
\* exactly the order_den negated pole magnitudes, each in [-5.0, -0.1]:
\* no root is zero or positive.
C2_DenMonicStable ==
    ret.op \in {"get_den", "get_transfer_function_parameters"} =>
        /\ Len(ret.cell.den) = ret.cell.order_den + 1
        /\ ret.cell.den[1] = 1
        /\ Len(ret.poles) = ret.cell.order_den
        /\ \A k \in 1..Len(ret.poles) :
               ret.poles[k] <= 0 - PoleLow /\ ret.poles[k] >= 0 - PoleHigh
        /\ \A x \in (0 - PoleHigh)..PoleHigh :
               (PolyEval(ret.cell.den, x) = 0) <=> (x \in Range(ret.poles))
        /\ \A k \in 1..Len(ret.cell.den) : ret.cell.den[k] > 0

C2_Witness ==
    /\ ret.op = "get_transfer_function_parameters"
    /\ ret.cell.order_den = DefaultOrderMax + 1
    /\ Cardinality(Range(ret.poles)) = DefaultOrderMax + 1

-----------------------------------------------------------------------------
(* ToyMIMO.initialization.                                                 *)

\* len(range(n)) and len([None] * n): nothing for n <= 0.
RangeLen(n) == IF n > 0 THEN n ELSE 0

\* The inner loop of initialization from column col on: one factory call per
\* cell.  calls logs the (row, col) of every factory call, in call order.
RECURSIVE FillRow(_, _, _, _)
FillRow(g, row, col, nr_inputs) ==
    IF col >= RangeLen(nr_inputs)
    THEN [cells |-> <<>>, g |-> g, calls |-> <<>>]
    ELSE LET c == get_transfer_function_parameters(g)
             rest == FillRow(c.g, row, col + 1, nr_inputs)
         IN  [cells |-> <<c.cell>> \o rest.cells,
              g |-> rest.g,
              calls |-> << <<row, col>> >> \o rest.calls]

\* The outer loop of initialization from row row on.
RECURSIVE FillRows(_, _, _, _)
FillRows(g, row, nr_outputs, nr_inputs) ==
    IF row >= RangeLen(nr_outputs)
    THEN [rows |-> <<>>, g |-> g, calls |-> <<>>]
    ELSE LET r == FillRow(g, row, 0, nr_inputs)
             rest == FillRows(r.g, row + 1, nr_outputs, nr_inputs)
         IN  [rows |-> <<r.cells>> \o rest.rows,
              g |-> rest.g,
              calls |-> r.calls \o rest.calls]

\* datetime.now() formatted to the second.
get_time == clock

\* heap[o].initialization().  save_params writes a file and changes no
\* attribute.
Initialization(o) ==
    /\ inits < MaxInits
    /\ LET r == FillRows(rng, 0, heap[o].nr_outputs, heap[o].nr_inputs)
       IN  /\ rng' = r.g
           /\ heap' = [heap EXCEPT ![o].params = <<r.rows>>,
                                   ![o].sys_name = <<get_time>>]
           /\ ret' = [NoRet EXCEPT !.op = "initialization", !.obj = o,
                                   !.status = "ok", !.calls = r.calls]
    /\ inits' = inits + 1
    /\ UNCHANGED clock

-----------------------------------------------------------------------------
(* ToyMIMO.build_system.                                                   *)

\* Leading zero coefficients dropped, as signal.TransferFunction does with
\* its numerator; an all-zero numerator is [0].
RECURSIVE StripZeros(_)
StripZeros(a) ==
    IF Len(a) <= 1 THEN (IF a = <<>> THEN <<0>> ELSE a)
    ELSE IF a[1] = 0 THEN StripZeros(Tail(a)) ELSE a

get_transfer_function(num, den) == [num |-> StripZeros(num), den |-> den]

\* _built_system(params): len(params[0]) raises IndexError on an empty grid.
\* The cell is a row of params, and so is the slot of H it fills.
_built_system(params) ==
    IF Len(params) = 0
    THEN [ok |-> FALSE, H |-> <<>>]
    ELSE [ok |-> TRUE,
          H |-> [row \in 1..Len(params) |->
                    [col \in 1..Len(params[1]) |->
                        get_transfer_function(params[row][col].num,
                                              params[row][col].den)]]]

\* heap[o].build_system(): reading self.params raises AttributeError before
\* initialization.  save_tf writes a file and changes no attribute.
BuildSystem(o) ==
    /\ IF ~HasAttr(heap[o].params)
       THEN /\ ret' = [NoRet EXCEPT !.op = "build_system", !.obj = o,
                                    !.status = "AttributeError"]
            /\ UNCHANGED heap
       ELSE LET b == _built_system(Attr(heap[o].params))
            IN  IF ~b.ok
                THEN /\ ret' = [NoRet EXCEPT !.op = "build_system", !.obj = o,
                                             !.status = "IndexError"]
                     /\ UNCHANGED heap
                ELSE /\ ret' = [NoRet EXCEPT !.op = "build_system", !.obj = o,
                                             !.status = "ok"]
                     /\ heap' = [heap EXCEPT ![o].H = <<b.H>>]
    /\ UNCHANGED <<rng, clock, inits>>

-----------------------------------------------------------------------------
(* ToyMIMO.excite_system.                                                  *)

\* scipy.signal.lsim(H, U=u, T=t_stamp): the zero-state response of one
\* transfer function to one signal.  It is a library routine; here it is a
\* causal linear filter whose taps are read from the transfer function.
Tap(tf, d) ==
    (IF d + 1 <= Len(tf.num) THEN tf.num[d + 1] ELSE 0)
    + (IF d + 2 <= Len(tf.den) THEN tf.den[d + 2] ELSE 0)

RECURSIVE Convolve(_, _, _, _)
Convolve(tf, u, k, l) ==
    IF l > k THEN 0 ELSE Tap(tf, k - l) * u[l] + Convolve(tf, u, k, l + 1)

excite_channel(tf, u) == [k \in 1..Len(u) |-> Convolve(tf, u, k, 1)]

Zeros(n) == [k \in 1..RangeLen(n) |-> 0]

VecAdd(a, b) == [k \in 1..Len(a) |-> a[k] + b[k]]

\* The loop of excite_dof from index i on (0-based, as in the source): Hrow is
\* one row of H, u the whole input array with m rows.  H[i] raises IndexError
\* once i runs past the row.  calls logs the index of every channel simulated.
RECURSIVE excite_dof_loop(_, _, _, _, _)
excite_dof_loop(Hrow, u, m, i, y) ==
    IF i >= m
    THEN [ok |-> TRUE, y |-> y, calls |-> <<>>]
    ELSE IF i + 1 > Len(Hrow)
    THEN [ok |-> FALSE, y |-> y, calls |-> <<>>]
    ELSE LET rest == excite_dof_loop(Hrow, u, m, i + 1,
                                     VecAdd(y, excite_channel(Hrow[i + 1], u[i + 1])))
         IN  [ok |-> rest.ok, y |-> rest.y, calls |-> <<i>> \o rest.calls]

excite_dof_skips_first(Hrow, u, N) == excite_dof_loop(Hrow, u, Len(u), 1, Zeros(N))

excite_dof(Hrow, u, N) == excite_dof_loop(Hrow, u, Len(u), 0, Zeros(N))

\* The loop of excite_system from output i on.  status is "ok" or the
\* exception raised; calls logs (output, input) of every channel simulated.
RECURSIVE excite_system_loop(_, _, _, _)
excite_system_loop(self, u, N, i) ==
    IF i >= RangeLen(self.nr_outputs)
    THEN [status |-> "ok", y |-> <<>>, calls |-> <<>>]
    ELSE IF ~HasAttr(self.H)
    THEN [status |-> "AttributeError", y |-> <<>>, calls |-> <<>>]
    ELSE IF i + 1 > Len(Attr(self.H))
    THEN [status |-> "IndexError", y |-> <<>>, calls |-> <<>>]
    ELSE LET d == excite_dof(Attr(self.H)[i + 1], u, N)
             log == [k \in 1..Len(d.calls) |-> <<i, d.calls[k]>>]
         IN  IF ~d.ok
             THEN [status |-> "IndexError", y |-> <<>>, calls |-> log]
             ELSE LET rest == excite_system_loop(self, u, N, i + 1)
                  IN  [status |-> rest.status,
                       y |-> <<d.y>> \o rest.y,
                       calls |-> log \o rest.calls]

\* excite_system(u, t_stamp) for an array u of shape (Len(u), N): np.zeros
\* raises ValueError for a negative nr_outputs.
excite_system(self, u, N) ==
    IF self.nr_outputs < 0
    THEN [status |-> "ValueError", y |-> <<>>, calls |-> <<>>]
    ELSE LET r == excite_system_loop(self, u, N, 0)
         IN  [status |-> r.status,
              y |-> IF r.status = "ok" THEN r.y ELSE <<>>,
              calls |-> r.calls]

\* The input arrays tried: m rows of N samples, row j (from 1) holding
\* a + j * k at sample k.
NSamples == 2
MaxRows == MaxDim + 1
InputArray(m, a) == [j \in 1..m |-> [k \in 1..NSamples |-> a + j * k]]

ExciteSystem(o) ==
    \E m \in 0..MaxRows, a \in {0, 1} :
        LET u == InputArray(m, a)
            r == excite_system(heap[o], u, NSamples)
        IN  /\ ret' = [NoRet EXCEPT !.op = "excite_system", !.obj = o,
                                    !.status = r.status, !.arg = u,
                                    !.y = r.y, !.calls = r.calls]
            /\ UNCHANGED <<rng, clock, heap, inits>>

-----------------------------------------------------------------------------
(* One ToyMIMO object and the calls made on it.                            *)

Tick ==
    /\ clock < MaxClock
    /\ clock' = clock + 1
    /\ UNCHANGED <<rng, heap, inits, ret>>

Dims == (0 - 1)..MaxDim

Init ==
    /\ rng \in 0..MaxSeed
    /\ clock = 0
    /\ \E nr_inputs \in Dims, nr_outputs \in Dims :
           heap = <<ToyMIMO(nr_inputs, nr_outputs)>>
    /\ inits = 0
    /\ ret = NoRet

Next ==
    \/ Tick
    \/ \E o \in DOMAIN heap : Initialization(o)
    \/ \E o \in DOMAIN heap : BuildSystem(o)
    \/ \E o \in DOMAIN heap : ExciteSystem(o)

Spec == Init /\ [][Next]_vars

-----------------------------------------------------------------------------
(* Claims about one object.                                                *)

ValidDims(self) == self.nr_inputs >= 1 /\ self.nr_outputs >= 1

\* Sum over the inputs j..n (from 1) of the response of channel Hrow[j] to
\* u[j], at sample k.
RECURSIVE ChannelSum(_, _, _, _, _)
ChannelSum(Hrow, u, k, j, n) ==
    IF j > n THEN 0
    ELSE excite_channel(Hrow[j], u[j])[k] + ChannelSum(Hrow, u, k, j + 1, n)

\* Every (row, col) of a rows x cols grid once, row-major, 0-based.
RowMajor(rows, cols) ==
    [n \in 1..(RangeLen(rows) * RangeLen(cols)) |->
        <<(n - 1) \div cols, (n - 1) % cols>>]

\* C3: on a built system, for an input with nr_inputs rows of N samples,
\* excite_system returns nr_outputs rows of N samples, row i being the sum
\* over every input j of excite_channel(H[i][j], U[j]); each of the
\* nr_outputs x nr_inputs channels is simulated exactly once.
C3_Superposition ==
    LET self == heap[ret.obj]
        u == ret.arg
    IN  (/\ ret.op = "excite_system"
         /\ HasAttr(self.H)
         /\ Len(u) = self.nr_inputs) =>
            /\ ret.status = "ok"
            /\ Len(ret.y) = self.nr_outputs
            /\ \A i \in 1..Len(ret.y) :
                   /\ Len(ret.y[i]) = NSamples
                   /\ \A k \in 1..NSamples :
                          ret.y[i][k] =
                              ChannelSum(Attr(self.H)[i], u, k, 1, self.nr_inputs)
            /\ ret.calls = RowMajor(self.nr_outputs, self.nr_inputs)

C3_Witness ==
    /\ ret.op = "excite_system"
    /\ ret.status = "ok"
    /\ HasAttr(heap[ret.obj].H)
    /\ heap[ret.obj].nr_inputs = 2
    /\ heap[ret.obj].nr_outputs = 2
    /\ Len(ret.arg) = 2
    /\ Len(ret.calls) = 4
    /\ ret.y[1] # ret.y[2]
    /\ ret.y[1][2] # 0

\* A step that is a call of op on object o (a call that changes nothing at
\* all is a stuttering step and is not looked at).
Called(op, o) == ret' # ret /\ ret'.op = op /\ ret'.obj = o

\* C4: build_system before initialization, and excite_system before
\* build_system, fail with an error, return no output and leave the object
\* unchanged; excite_system succeeds only on a built system.
C4_LifecycleOrder ==
    [][\A o \in DOMAIN heap :
          /\ (Called("build_system", o) /\ ~HasAttr(heap[o].params)) =>
                 ret'.status # "ok" /\ heap' = heap
          /\ (Called("excite_system", o) /\ ~HasAttr(heap[o].H)) =>
                 ret'.status # "ok" /\ ret'.y = <<>> /\ heap' = heap]_vars

\* C5: on a built system, an input whose number of rows differs from
\* nr_inputs raises an error before any channel is simulated, and no output
\* is returned.
C5_DimensionMismatch ==
    LET self == heap[ret.obj]
    IN  (/\ ret.op = "excite_system"
         /\ HasAttr(self.H)
         /\ ValidDims(self)
         /\ Len(ret.arg) # self.nr_inputs) =>
            /\ ret.status # "ok"
            /\ ret.calls = <<>>
            /\ ret.y = <<>>

\* C6: an object with nr_inputs < 1 or nr_outputs < 1 never gets a parameter
\* grid, a name or a built representation, and no call on it succeeds.
C6_InvalidConfiguration ==
    \A o \in DOMAIN heap :
        ~ValidDims(heap[o]) =>
            /\ ~HasAttr(heap[o].params)
            /\ ~HasAttr(heap[o].sys_name)
            /\ ~HasAttr(heap[o].H)
            /\ (ret.obj = o => ret.status # "ok")

\* H[i][j] is the transfer function built from params[i][j].
HMatchesParams(self) ==
    HasAttr(self.H) =>
        /\ HasAttr(self.params)
        /\ Len(Attr(self.H)) = Len(Attr(self.params))
        /\ \A i \in 1..Len(Attr(self.H)) :
               /\ Len(Attr(self.H)[i]) = Len(Attr(self.params)[i])
               /\ \A j \in 1..Len(Attr(self.H)[i]) :
                      Attr(self.H)[i][j] =
                          get_transfer_function(Attr(self.params)[i][j].num,
                                                Attr(self.params)[i][j].den)

\* C8: once an object is built, no later call changes its parameter grid,
\* its name or H, and wherever H exists it is built from the current grid.
C8_ImmutableOnceBuilt ==
    /\ [](\A o \in DOMAIN heap : ValidDims(heap[o]) => HMatchesParams(heap[o]))
    /\ [][\A o \in DOMAIN heap :
              (ValidDims(heap[o]) /\ HasAttr(heap[o].H)) =>
                  /\ heap'[o].params = heap[o].params
                  /\ heap'[o].sys_name = heap[o].sys_name
                  /\ heap'[o].H = heap[o].H]_vars

\* A cell holds the full record, with order + 1 coefficients each.
FullCell(c) ==
    /\ Len(c.num) = c.order_num + 1
    /\ Len(c.den) = c.order_den + 1

GridShape(self) ==
    /\ HasAttr(self.params)
    /\ Len(Attr(self.params)) = self.nr_outputs
    /\ \A i \in 1..Len(Attr(self.params)) :
           /\ Len(Attr(self.params)[i]) = self.nr_inputs
           /\ \A j \in 1..Len(Attr(self.params)[i]) :
                  FullCell(Attr(self.params)[i][j])

\* C9: initialization calls the factory once per cell in row-major order and
\* leaves a grid of exactly nr_outputs rows of exactly nr_inputs full cells.
C9_GridComplete ==
    ret.op = "initialization" =>
        /\ GridShape(heap[ret.obj])
        /\ ret.calls = RowMajor(heap[ret.obj].nr_outputs, heap[ret.obj].nr_inputs)

-----------------------------------------------------------------------------
(* Two ToyMIMO objects of one process: both draw from the one generator    *)
(* that the module seeds when it is imported.                              *)

InitTwo ==
    /\ rng \in 0..MaxSeed
    /\ clock = 0
    /\ \E a \in 1..MaxDim, b \in 1..MaxDim, c \in 1..MaxDim, d \in 1..MaxDim :
           heap = <<ToyMIMO(a, b), ToyMIMO(c, d)>>
    /\ inits = 0
    /\ ret = NoRet

NextTwo ==
    \/ Tick
    \/ \E o \in DOMAIN heap : Initialization(o)

SpecTwo == InitTwo /\ [][NextTwo]_vars

\* C7: two systems of the same nr_inputs and nr_outputs initialized under
\* the same seed have equal parameter grids, whatever was initialized before
\* and in whatever order.
C7_SameSeedSameGrid ==
    \A a \in DOMAIN heap, b \in DOMAIN heap :
        (/\ HasAttr(heap[a].params)
         /\ HasAttr(heap[b].params)
         /\ heap[a].nr_inputs = heap[b].nr_inputs
         /\ heap[a].nr_outputs = heap[b].nr_outputs) =>
            heap[a].params = heap[b].params

-----------------------------------------------------------------------------
(* ToyMIMO.get_format.  Its argument is an array of reals, here integers   *)
(* in millionths, so that the fifth decimal is a rounded one.              *)

Abs(x) == IF x < 0 THEN 0 - x ELSE x

Digit(d) ==
    CASE d = 0 -> "0" [] d = 1 -> "1" [] d = 2 -> "2" [] d = 3 -> "3"
      [] d = 4 -> "4" [] d = 5 -> "5" [] d = 6 -> "6" [] d = 7 -> "7"
      [] d = 8 -> "8" [] d = 9 -> "9"

\* str(n) for n >= 0.
RECURSIVE IntStr(_)
IntStr(n) == IF n < 10 THEN Digit(n) ELSE IntStr(n \div 10) \o Digit(n % 10)

\* The last width digits of n, zero-padded.
RECURSIVE Padded(_, _)
Padded(n, width) ==
    IF width = 0 THEN "" ELSE Padded(n \div 10, width - 1) \o Digit(n % 10)

\* f"{x:.5f}" for x >= 0 in millionths: rounded to the nearest 10^-5 (the
\* arrays tried hold no tie).
Format5f(x) ==
    LET r == (x + 5) \div 10
    IN  IntStr(r \div 100000) \o "." \o Padded(r % 100000, 5)

\* " ".join(terms)
RECURSIVE Join(_)
Join(terms) ==
    IF terms = <<>> THEN ""
    ELSE IF Len(terms) = 1 THEN terms[1]
    ELSE terms[1] \o " " \o Join(Tail(terms))

TermAlwaysPlus(coef, exponent, terms) ==
    LET term == IF exponent = 0 THEN Format5f(Abs(coef))
                ELSE IF exponent = 1 THEN Format5f(Abs(coef)) \o "s"
                ELSE Format5f(Abs(coef)) \o "s^" \o IntStr(exponent)
    IN  IF coef < 0 THEN "- " \o term ELSE "+ " \o term

\* The body of the loop for a non-zero coefficient: the term appended.
Term(coef, exponent, terms) ==
    LET term == IF exponent = 0 THEN Format5f(Abs(coef))
                ELSE IF exponent = 1 THEN Format5f(Abs(coef)) \o "s"
                ELSE Format5f(Abs(coef)) \o "s^" \o IntStr(exponent)
    IN  IF coef < 0 THEN "- " \o term
        ELSE IF terms # <<>> THEN "+ " \o term
        ELSE term

\* The loop of get_format from index i (from 1) on.
RECURSIVE get_format_loop(_, _, _)
get_format_loop(a, i, terms) ==
    IF i > Len(a) THEN terms
    ELSE IF a[i] = 0 THEN get_format_loop(a, i + 1, terms)
    ELSE get_format_loop(a, i + 1,
                         Append(terms, Term(a[i], (Len(a) - 1) - (i - 1), terms)))

get_format(a) == Join(get_format_loop(a, 1, <<>>))

\* The coefficients tried: -1.5, -0.000007, 0, 0.000004, 2.25, 12.5.
Coefs == {0 - 1500000, 0 - 7, 0, 4, 2250000, 12500000}

Arrays == UNION {[1..n -> Coefs] : n \in 0..MaxLen}

\* The array about to be formatted waits in ret.arg.
InitFormat ==
    /\ rng = 0
    /\ clock = 0
    /\ heap = <<ToyMIMO(1, 1)>>
    /\ inits = 0
    /\ \E a \in Arrays : ret = [NoRet EXCEPT !.arg = a]

CallGetFormat ==
    /\ ret.op = "none"
    /\ ret' = [NoRet EXCEPT !.op = "get_format", !.status = "ok",
                            !.arg = ret.arg, !.str = get_format(ret.arg)]
    /\ UNCHANGED <<rng, clock, heap, inits>>

NextFormat == CallGetFormat

SpecFormat == InitFormat /\ [][NextFormat]_vars

\* What the claim says index i (from 1) of the array contributes to the
\* string: nothing for a zero; otherwise the magnitude to 5 decimals, then
\* nothing, "s" or "s^n" for the exponent Len(a) - i, behind "- " for a
\* negative coefficient, "+ " for a non-negative one that is not the first
\* term emitted, and one space between terms.
Emitted(a, i) == a[i] # 0
FirstEmitted(a, i) == \A h \in 1..(i - 1) : ~Emitted(a, h)

Piece(a, i) ==
    LET exponent == Len(a) - i
        suffix == IF exponent = 0 THEN ""
                  ELSE IF exponent = 1 THEN "s"
                  ELSE "s^" \o IntStr(exponent)
        sign == IF a[i] < 0 THEN "- "
                ELSE IF FirstEmitted(a, i) THEN "" ELSE "+ "
        gap == IF FirstEmitted(a, i) THEN "" ELSE " "
    IN  IF ~Emitted(a, i) THEN ""
        ELSE gap \o sign \o Format5f(Abs(a[i])) \o suffix

RECURSIVE Pieces(_, _)
Pieces(a, i) == IF i > Len(a) THEN "" ELSE Piece(a, i) \o Pieces(a, i + 1)

\* C10: get_format renders one term per non-zero coefficient in descending
\* exponent, none for a zero, with the sign and s / s^n rules above; an
\* all-zero array renders as the empty string.
C10_FormatTerms ==
    ret.op = "get_format" =>
        /\ ret.str = Pieces(ret.arg, 1)
        /\ ((\A i \in 1..Len(ret.arg) : ret.arg[i] = 0) => ret.str = "")

C10_Witness ==
    /\ ret.op = "get_format"
    /\ ret.arg = <<0 - 1500000, 4, 2250000>>
    /\ ret.str = "- 1.50000s^2 + 0.00000s + 2.25000"

====
